---- MODULE Spec2Model ----
(***************************************************************************)
(* The mdp configuration editor of gbsa_pipeline: change_params.py (value  *)
(* formatter, line parser, key/value editor, bulk applier) and the         *)
(* validated protocol wrapper of change_defaults.py, the override-file     *)
(* reader of gmx_edit_defaults.py and run_gro_custom.                      *)
(*                                                                         *)
(* A Python str is a sequence of one-character strings, so that strip,     *)
(* find, partition and slicing are computed character by character.  A     *)
(* list of lines is a sequence of such sequences.  Python indices are      *)
(* 0-based; find and the slices keep that convention, line numbers of the  *)
(* buffer are 1-based (0 = no line).                                       *)
(***************************************************************************)
EXTENDS Integers, Sequences, FiniteSets, TLC

VARIABLES
    lines,      \* the configuration buffer (list[str]) the caller holds
    before,     \* the buffer as it was when the last call started
    op,         \* the last operation run on the buffer
    argKey,     \* key argument of the last set_mdp_key call
    argValue,   \* value argument of the last set_mdp_key call
    argParams,  \* mapping argument of the last change_default_params call
    raised,     \* the exception the last call raised (kind "none": it returned)
    hit,        \* line the last set_mdp_key call rewrote (0: it appended)
    mdp_value,  \* the local mdp_value of the last set_mdp_key call
    _parameters,        \* the wrapper's pending key -> value dict
    parameters_before,  \* that dict when the last setter call started
    ret,                \* what the last setter call returned ("self"), or "none"
    calls,              \* number of setter calls made on the wrapper
    returned,   \* the list the last set_mdp_key call returned
    aliased,    \* whether that list is the very list the caller passed
    argRaw,     \* raw argument of the _parse_value call
    parsed,     \* what the last _parse_value call returned
    changes_file,       \* the changes_file argument (None, or a path)
    parsed_from_file,   \* the dict apply_changes returned
    pc,         \* run_gro_custom: number of statements executed
    changes,    \* run_gro_custom: the changes argument (None, or a mapping)
    config,     \* run_gro_custom: the config custom_protocol holds
    events      \* run_gro_custom: the calls made so far, in order

editor == <<lines, before, argKey, argParams, hit, mdp_value>>
wrapper == <<_parameters, parameters_before, ret, calls>>
copy == <<returned, aliased>>
parse == <<argRaw, parsed>>
file == <<changes_file, parsed_from_file>>
run == <<pc, changes, config, events>>
vars == <<lines, before, op, argKey, argValue, argParams, raised, hit, mdp_value,
          _parameters, parameters_before, ret, calls, returned, aliased,
          argRaw, parsed, changes_file, parsed_from_file, pc, changes, config,
          events>>

----------------------------------------------------------------------------
(* Bounds of the model *)

\* longest buffer Init draws from LinePool
MaxLines == 2
\* longest mapping handed to change_default_params
MaxEntries == 2
\* most setter calls made on one wrapper
MaxCalls == 2
\* most lines of an override file
MaxFileLines == 2

----------------------------------------------------------------------------
(* Python values *)

\* A value is a record tagged with its Python type; the fields a type does
\* not use hold a default.  A float m * 10^-k is kept as (n = m, k = k).
PyValue(t, b, n, k, s) == [type |-> t, b |-> b, n |-> n, k |-> k, s |-> s]
PyBool(b) == PyValue("bool", b, 0, 0, <<>>)
PyInt(n) == PyValue("int", FALSE, n, 0, <<>>)
PyFloat(m, k) == PyValue("float", FALSE, m, k, <<>>)
PyStr(s) == PyValue("str", FALSE, 0, 0, s)
\* a StrEnum member: it has a .value attribute, the str s
PyEnum(s) == PyValue("StrEnum", FALSE, 0, 0, s)
PyNone == PyValue("NoneType", FALSE, 0, 0, <<>>)
PyList == PyValue("list", FALSE, 0, 0, <<>>)

\* exceptions: kind "none" stands for a normal return
PyError(kind, name, key, cand) == [kind |-> kind, name |-> name, key |-> key, cand |-> cand]
NoError == PyError("none", "", <<>>, <<>>)

----------------------------------------------------------------------------
(* Python str methods used by the source *)

WhiteSpace == {" ", "\t", "\n", "\r", "\f"}

isspace(c) == c \in WhiteSpace

\* s[:n] and s[n:]
Take(s, n) == SubSeq(s, 1, n)
Drop(s, n) == SubSeq(s, n + 1, Len(s))

\* s.find(ch): lowest 0-based index of ch, -1 when absent
find(s, ch) ==
    IF \E i \in 1..Len(s) : s[i] = ch
    THEN (CHOOSE i \in 1..Len(s) : s[i] = ch /\ \A j \in 1..(i - 1) : s[j] # ch) - 1
    ELSE -1

RECURSIVE LeadingCount(_, _)
\* number of leading whitespace characters of s, counting from index i
LeadingCount(s, i) ==
    IF i < Len(s) /\ isspace(s[i + 1]) THEN LeadingCount(s, i + 1) ELSE i

RECURSIVE TrailingCount(_, _)
\* number of trailing whitespace characters of s, counting i of them so far
TrailingCount(s, i) ==
    IF i < Len(s) /\ isspace(s[Len(s) - i]) THEN TrailingCount(s, i + 1) ELSE i

lstrip(s) == Drop(s, LeadingCount(s, 0))
rstrip(s) == Take(s, Len(s) - TrailingCount(s, 0))
strip(s) == rstrip(lstrip(s))

\* s.startswith(("#", ";"))
startswith(s, chars) == Len(s) > 0 /\ s[1] \in chars

\* s.partition(sep) for a one-character sep
partition(s, sep) ==
    LET i == find(s, sep) IN
    IF i = -1
    THEN [left |-> s, sep |-> <<>>, right |-> <<>>]
    ELSE [left |-> Take(s, i), sep |-> <<sep>>, right |-> Drop(s, i + 1)]

RECURSIVE Spaces(_)
Spaces(n) == IF n <= 0 THEN <<>> ELSE <<" ">> \o Spaces(n - 1)

\* f"{s:<w}": s left-justified in a field of at least w characters
ljust(s, w) == s \o Spaces(w - Len(s))

Digit == <<"0", "1", "2", "3", "4", "5", "6", "7", "8", "9">>

RECURSIVE NatStr(_)
NatStr(n) == IF n < 10 THEN <<Digit[n + 1]>> ELSE NatStr(n \div 10) \o <<Digit[(n % 10) + 1]>>

\* str(n) of an int
IntStr(n) == IF n < 0 THEN <<"-">> \o NatStr(-n) ELSE NatStr(n)

RECURSIVE Pow10(_)
Pow10(k) == IF k = 0 THEN 1 ELSE 10 * Pow10(k - 1)

RECURSIVE ZeroPad(_, _)
ZeroPad(s, w) == IF Len(s) >= w THEN s ELSE ZeroPad(<<"0">> \o s, w)

\* str(x) of the float m * 10^-k in positional notation (m not a multiple
\* of 10 unless k = 0; 1e-4 <= |x| < 1e16, where Python prints no exponent)
FloatStr(m, k) ==
    LET a == IF m < 0 THEN -m ELSE m
        sign == IF m < 0 THEN <<"-">> ELSE <<>>
    IN  IF k = 0
        THEN sign \o NatStr(a) \o <<".", "0">>
        ELSE sign \o NatStr(a \div Pow10(k)) \o <<".">> \o ZeroPad(NatStr(a % Pow10(k)), k)

----------------------------------------------------------------------------
(* change_params.py *)

KeyFieldWidth == 28

_leading_ws(s) == Take(s, LeadingCount(s, 0))

_split_inline_comment(s) ==
    LET semi == find(s, ";")
        hash_ == find(s, "#")
        idx == IF semi = -1 THEN hash_
               ELSE IF hash_ = -1 THEN semi
               ELSE IF semi < hash_ THEN semi ELSE hash_
    IN  IF semi = -1 /\ hash_ = -1
        THEN <<s, <<>>>>
        ELSE <<Take(s, idx), Drop(s, idx)>>

\* hasattr(value, "value")
hasattr_value(value) == value.type = "StrEnum"

\* the bool test missing: a bool falls through to the (int, float) test
isinstance_bool_Never(value) == FALSE

\* isinstance(value, bool); isinstance(value, (int, float)): bool is a
\* subclass of int; isinstance(value, str): a StrEnum member is a str
isinstance_bool(value) == value.type = "bool"
isinstance_int_float(value) == value.type \in {"bool", "int", "float"}
isinstance_str(value) == value.type \in {"str", "StrEnum"}

\* str(value) of a bool, int or float
str(value) ==
    CASE value.type = "bool" -> IF value.b THEN <<"T","r","u","e">> ELSE <<"F","a","l","s","e">>  \* "True", "False"
      [] value.type = "int" -> IntStr(value.n)
      [] value.type = "float" -> FloatStr(value.n, value.k)

\* returns [raised, text]: the text, or the TypeError naming the type
format_gmx_value(value0) ==
    LET value == IF hasattr_value(value0) THEN PyStr(value0.s) ELSE value0 IN
    IF isinstance_bool(value)
    THEN [raised |-> NoError, text |-> IF value.b THEN <<"y","e","s">> ELSE <<"n","o">>]
    ELSE IF isinstance_int_float(value)
    THEN [raised |-> NoError, text |-> str(value)]
    ELSE IF isinstance_str(value)
    THEN [raised |-> NoError, text |-> strip(value.s)]
    ELSE [raised |-> PyError("TypeError", value.type, <<>>, <<>>), text |-> <<>>]

is_comment(line) ==
    LET stripped == lstrip(line) IN
    stripped = <<>> \/ startswith(stripped, {"#", ";"})

\* the loop keeping the last matching line instead of breaking at the first
MatchLoop_Last(out, i, wanted) ==
    LET M == { j \in i..Len(out) :
                 /\ ~is_comment(out[j])
                 /\ partition(out[j], "=").sep # <<>>
                 /\ strip(partition(out[j], "=").left) = wanted }
    IN  IF M = {} THEN 0 ELSE CHOOSE j \in M : \A k \in M : k <= j

RECURSIVE MatchLoop(_, _, _)
\* the for loop of set_mdp_key from line i on: the line it breaks at, or 0
\* when it runs to the end and the else branch is taken
MatchLoop(out, i, wanted) ==
    IF i > Len(out) THEN 0
    ELSE IF is_comment(out[i]) THEN MatchLoop(out, i + 1, wanted)
    ELSE LET p == partition(out[i], "=") IN
         IF p.sep = <<>> \/ strip(p.left) # wanted
         THEN MatchLoop(out, i + 1, wanted)
         ELSE i

\* the line the loop body writes over a matching line ln
EditLine(ln, mdp) ==
    LET p == partition(ln, "=")
        sc == _split_inline_comment(p.right)
        before_comment == sc[1]
        comment == sc[2]
        prefix == _leading_ws(before_comment)
    IN  p.left \o <<"=">> \o prefix \o mdp \o comment

\* the appended line without the field width
AppendLine_NoPad(wanted, mdp) == wanted \o <<" ","="," ">> \o mdp

\* the line the else branch appends
AppendLine(wanted, mdp) ==
    ljust(wanted, KeyFieldWidth) \o <<" ","="," ">> \o mdp

\* the loop without its break: every matching line is rewritten
set_mdp_key_NoBreak(lines_, key, value, inplace) ==
    LET f == format_gmx_value(value) IN
    IF f.raised.kind # "none"
    THEN [raised |-> f.raised, lines |-> lines_, ret |-> <<>>, hit |-> 0,
          mdp_value |-> <<>>, aliased |-> FALSE]
    ELSE LET wanted == strip(key)
             i == MatchLoop(lines_, 1, wanted)
             M == { j \in 1..Len(lines_) : MatchLoop(lines_, j, wanted) = j }
             out == IF i = 0
                    THEN Append(lines_, AppendLine(wanted, f.text))
                    ELSE [j \in 1..Len(lines_) |->
                            IF j \in M THEN EditLine(lines_[j], f.text) ELSE lines_[j]]
         IN  [raised |-> NoError,
              lines |-> IF inplace THEN out ELSE lines_,
              ret |-> out,
              hit |-> i,
              mdp_value |-> f.text,
              aliased |-> inplace]

\* inplace ignored: the edit is always made on the caller's list
set_mdp_key_AlwaysInplace(lines_, key, value, inplace) ==
    LET f == format_gmx_value(value) IN
    IF f.raised.kind # "none"
    THEN [raised |-> f.raised, lines |-> lines_, ret |-> <<>>, hit |-> 0,
          mdp_value |-> <<>>, aliased |-> FALSE]
    ELSE LET wanted == strip(key)
             i == MatchLoop(lines_, 1, wanted)
             out == IF i = 0
                    THEN Append(lines_, AppendLine(wanted, f.text))
                    ELSE [lines_ EXCEPT ![i] = EditLine(lines_[i], f.text)]
         IN  [raised |-> NoError,
              lines |-> out,
              ret |-> out,
              hit |-> i,
              mdp_value |-> f.text,
              aliased |-> TRUE]

\* returns [raised, lines, ret, hit, mdp_value, aliased]: lines is the
\* caller's list after the call, ret the list returned, hit the line
\* rewritten (0: appended), aliased whether ret is the caller's list (out =
\* lines) or a copy of it (out = list(lines))
set_mdp_key(lines_, key, value, inplace) ==
    LET f == format_gmx_value(value) IN
    IF f.raised.kind # "none"
    THEN [raised |-> f.raised, lines |-> lines_, ret |-> <<>>, hit |-> 0,
          mdp_value |-> <<>>, aliased |-> FALSE]
    ELSE LET wanted == strip(key)
             i == MatchLoop(lines_, 1, wanted)
             out == IF i = 0
                    THEN Append(lines_, AppendLine(wanted, f.text))
                    ELSE [lines_ EXCEPT ![i] = EditLine(lines_[i], f.text)]
         IN  [raised |-> NoError,
              lines |-> IF inplace THEN out ELSE lines_,
              ret |-> out,
              hit |-> i,
              mdp_value |-> f.text,
              aliased |-> inplace]

RECURSIVE change_default_params_Reversed(_, _)
\* the entries applied last to first
change_default_params_Reversed(lines_, params) ==
    IF params = <<>> THEN [raised |-> NoError, lines |-> lines_]
    ELSE LET last == params[Len(params)]
             r == set_mdp_key(lines_, last.k, last.v, TRUE)
         IN  IF r.raised.kind # "none"
             THEN [raised |-> r.raised, lines |-> r.lines]
             ELSE change_default_params_Reversed(r.lines, SubSeq(params, 1, Len(params) - 1))

RECURSIVE change_default_params_Atomic(_, _)
\* every value formatted before the first entry is applied: a raising entry
\* leaves the buffer as it was passed
change_default_params_Atomic(lines_, params) ==
    LET bad == { n \in 1..Len(params) : format_gmx_value(params[n].v).raised.kind # "none" } IN
    IF bad # {}
    THEN [raised |-> format_gmx_value(params[CHOOSE n \in bad : \A m \in bad : n <= m].v).raised,
          lines |-> lines_]
    ELSE IF params = <<>> THEN [raised |-> NoError, lines |-> lines_]
    ELSE change_default_params_Atomic(set_mdp_key(lines_, Head(params).k, Head(params).v, TRUE).lines,
                                      Tail(params))

RECURSIVE change_default_params(_, _)
\* params is the mapping as the sequence of its items in iteration order;
\* returns [raised, lines]; a raising entry ends the loop
change_default_params(lines_, params) ==
    IF params = <<>> THEN [raised |-> NoError, lines |-> lines_]
    ELSE LET r == set_mdp_key(lines_, Head(params).k, Head(params).v, TRUE) IN
         IF r.raised.kind # "none"
         THEN [raised |-> r.raised, lines |-> r.lines]
         ELSE change_default_params(r.lines, Tail(params))

----------------------------------------------------------------------------
(* change_defaults_enum.py: the members of the enumerations the setters use *)

Integrator ==
    { PyEnum(<<"m","d">>),
      PyEnum(<<"m","d","-","v","v">>),  \* "md-vv"
      PyEnum(<<"s","d">>),
      PyEnum(<<"b","d">>) }

CommMode ==
    { PyEnum(<<"L","i","n","e","a","r">>),  \* "Linear"
      PyEnum(<<"A","n","g","u","l","a","r">>),  \* "Angular"
      PyEnum(<<"L","i","n","e","a","r","-","a","c","c","e","l","e","r","a","t","i","o","n","-","c","o","r","r","e","c","t","i","o","n">>),  \* "Linear-acceleration-correction"
      PyEnum(<<"N","o","n","e">>) }  \* "None"

NghCutoffScheme ==
    { PyEnum(<<"V","e","r","l","e","t">>),  \* "Verlet"
      PyEnum(<<"g","r","o","u","p">>) }  \* "group"

CoulombType ==
    { PyEnum(<<"C","u","t","-","o","f","f">>),  \* "Cut-off"
      PyEnum(<<"E","w","a","l","d">>),  \* "Ewald"
      PyEnum(<<"P","M","E">>),
      PyEnum(<<"P","M","3","-","A","D">>),  \* "PM3-AD"
      PyEnum(<<"R","e","a","c","t","i","o","n","-","f","i","e","l","d">>) }  \* "Reaction-field"

CoulombModifier ==
    { PyEnum(<<"P","o","t","e","n","t","i","a","l","-","s","h","i","f","t">>),  \* "Potential-shift"
      PyEnum(<<"N","o","n","e">>) }  \* "None"

VDWType ==
    { PyEnum(<<"C","u","t","-","o","f","f">>),  \* "Cut-off"
      PyEnum(<<"S","h","i","f","t">>),  \* "Shift"
      PyEnum(<<"P","M","E">>),
      PyEnum(<<"S","w","i","t","c","h">>) }  \* "Switch"

DispCorr ==
    { PyEnum(<<"n","o">>),
      PyEnum(<<"E","n","e","r","P","r","e","s">>),  \* "EnerPres"
      PyEnum(<<"E","n","e","r","g","y">>) }  \* "Energy"

VDWModifier ==
    { PyEnum(<<"P","o","t","e","n","t","i","a","l","_","S","h","i","f","t">>),  \* "Potential_Shift"
      PyEnum(<<"N","o","n","e">>),  \* "None"
      PyEnum(<<"F","o","r","c","e","-","s","w","i","t","c","h">>),  \* "Force-switch"
      PyEnum(<<"p","o","t","e","n","t","i","a","l","-","s","w","i","t","c","h">>) }  \* "potential-switch"

Barostat ==
    { PyEnum(<<"n","o">>),
      PyEnum(<<"B","e","r","e","n","d","s","e","n">>),  \* "Berendsen"
      PyEnum(<<"C","-","r","e","s","c","a","l","e">>),  \* "C-rescale"
      PyEnum(<<"P","a","r","r","i","n","e","l","l","o","-","R","a","h","m","a","n">>),  \* "Parrinello-Rahman"
      PyEnum(<<"M","T","T","K">>) }  \* "MTTK"

ConstraintsAlgorithms ==
    { PyEnum(<<"L","I","N","C","S">>),  \* "LINCS"
      PyEnum(<<"S","H","A","K","E">>) }  \* "SHAKE"

----------------------------------------------------------------------------
(* change_defaults.py: GromacsCustom *)

UpperCase == <<"A","B","C","D","E","F","G","H","I","J","K","L","M","N","O","P","Q","R","S","T","U","V","W","X","Y","Z">>  \* "ABCDEFGHIJKLMNOPQRSTUVWXYZ"
LowerCase == <<"a","b","c","d","e","f","g","h","i","j","k","l","m","n","o","p","q","r","s","t","u","v","w","x","y","z">>  \* "abcdefghijklmnopqrstuvwxyz"

\* a comparison that keeps the case
lower_Identity(s) == s

\* the lower-case letter of each upper-case letter
LowerOf ==
    [c \in { UpperCase[n] : n \in 1..Len(UpperCase) } |->
        LowerCase[CHOOSE n \in 1..Len(UpperCase) : UpperCase[n] = c]]

\* s.lower()
lower(s) ==
    [i \in 1..Len(s) |-> IF s[i] \in DOMAIN LowerOf THEN LowerOf[s[i]] ELSE s[i]]

_enum_values(enum_cls) == { m.s : m \in enum_cls }

\* the allowed_values argument: None, or an iterable of str
None == [none |-> TRUE, values |-> {}]
Given(values) == [none |-> FALSE, values |-> values]

\* the value recorded as it was passed, not the allowed value it matched
_set_parameter_StoreRaw(self, parameter, value0, allowed_values) ==
    LET key == strip(parameter)
        value == IF hasattr_value(value0) THEN PyStr(value0.s) ELSE value0
        stored(val) ==
            [raised |-> NoError,
             parameters |-> [k \in DOMAIN self \cup {key} |-> IF k = key THEN val ELSE self[k]],
             ret |-> "self"]
        fails(err) == [raised |-> err, parameters |-> self, ret |-> "none"]
    IN  IF allowed_values.none
        THEN { stored(value) }
        ELSE IF ~isinstance_str(value)
        THEN { fails(PyError("TypeError", "", key, <<>>)) }
        ELSE LET v == lower(strip(value.s))
                 matching == { a \in allowed_values.values : lower(a) = v }
             IN  IF matching = {}
                 THEN { fails(PyError("ValueError", "", key, value.s)) }
                 ELSE { stored(value) }

\* the dict replaced by one holding the new entry alone
_set_parameter_Reset(self, parameter, value0, allowed_values) ==
    LET key == strip(parameter)
        value == IF hasattr_value(value0) THEN PyStr(value0.s) ELSE value0
        stored(val) ==
            [raised |-> NoError,
             parameters |-> [k \in {key} |-> val],
             ret |-> "self"]
        fails(err) == [raised |-> err, parameters |-> self, ret |-> "none"]
    IN  IF allowed_values.none
        THEN { stored(value) }
        ELSE IF ~isinstance_str(value)
        THEN { fails(PyError("TypeError", "", key, <<>>)) }
        ELSE LET v == lower(strip(value.s))
                 matching == { a \in allowed_values.values : lower(a) = v }
             IN  IF matching = {}
                 THEN { fails(PyError("ValueError", "", key, value.s)) }
                 ELSE { stored(PyStr(canonical)) : canonical \in matching }

\* no type test: what is no str matches no allowed value
_set_parameter_NoTypeTest(self, parameter, value0, allowed_values) ==
    LET key == strip(parameter)
        value == IF hasattr_value(value0) THEN PyStr(value0.s) ELSE value0
        stored(val) ==
            [raised |-> NoError,
             parameters |-> [k \in DOMAIN self \cup {key} |-> IF k = key THEN val ELSE self[k]],
             ret |-> "self"]
        fails(err) == [raised |-> err, parameters |-> self, ret |-> "none"]
    IN  IF allowed_values.none
        THEN { stored(value) }
        ELSE IF ~isinstance_str(value)
        THEN { fails(PyError("ValueError", "", key, <<>>)) }
        ELSE LET v == lower(strip(value.s))
                 matching == { a \in allowed_values.values : lower(a) = v }
             IN  IF matching = {}
                 THEN { fails(PyError("ValueError", "", key, value.s)) }
                 ELSE { stored(PyStr(canonical)) : canonical \in matching }

\* the key's pending entry dropped when the call fails
_set_parameter_ClearOnFail(self, parameter, value0, allowed_values) ==
    LET key == strip(parameter)
        value == IF hasattr_value(value0) THEN PyStr(value0.s) ELSE value0
        stored(val) ==
            [raised |-> NoError,
             parameters |-> [k \in DOMAIN self \cup {key} |-> IF k = key THEN val ELSE self[k]],
             ret |-> "self"]
        fails(err) ==
            [raised |-> err,
             parameters |-> [k \in DOMAIN self \ {key} |-> self[k]],
             ret |-> "none"]
    IN  IF allowed_values.none
        THEN { stored(value) }
        ELSE IF ~isinstance_str(value)
        THEN { fails(PyError("TypeError", "", key, <<>>)) }
        ELSE LET v == lower(strip(value.s))
                 matching == { a \in allowed_values.values : lower(a) = v }
             IN  IF matching = {}
                 THEN { fails(PyError("ValueError", "", key, value.s)) }
                 ELSE { stored(PyStr(canonical)) : canonical \in matching }

\* self is the dict self._parameters.  Returns the set of outcomes
\* [raised, parameters, ret]: next() takes the first allowed value that
\* matches in the iteration order of a set, so each matching one is possible
_set_parameter(self, parameter, value0, allowed_values) ==
    LET key == strip(parameter)
        value == IF hasattr_value(value0) THEN PyStr(value0.s) ELSE value0
        stored(val) ==
            [raised |-> NoError,
             parameters |-> [k \in DOMAIN self \cup {key} |-> IF k = key THEN val ELSE self[k]],
             ret |-> "self"]
        fails(err) == [raised |-> err, parameters |-> self, ret |-> "none"]
    IN  IF allowed_values.none
        THEN { stored(value) }
        ELSE IF ~isinstance_str(value)
        THEN { fails(PyError("TypeError", "", key, <<>>)) }
        ELSE LET v == lower(strip(value.s))
                 matching == { a \in allowed_values.values : lower(a) = v }
             IN  IF matching = {}
                 THEN { fails(PyError("ValueError", "", key, value.s)) }
                 ELSE { stored(PyStr(canonical)) : canonical \in matching }

set_integrator(self, value) ==
    LET allowed == _enum_values(Integrator) IN
    _set_parameter(self, <<"i","n","t","e","g","r","a","t","o","r">>, value, Given(allowed))  \* "integrator"

set_comm_mode(self, value) ==
    LET allowed == _enum_values(CommMode) IN
    _set_parameter(self, <<"c","o","m","m","-","m","o","d","e">>, value, Given(allowed))  \* "comm-mode"

set_cutoff_scheme(self, value) ==
    LET allowed == _enum_values(NghCutoffScheme) IN
    _set_parameter(self, <<"c","u","t","o","f","f","-","s","c","h","e","m","e">>, value, Given(allowed))  \* "cutoff-scheme"

set_pbc(self, value) ==
    LET allowed == { <<"x","y","z">>, <<"n","o">>, <<"x","y">>, <<"s","c","r","e","w">> } IN  \* "screw"
    _set_parameter(self, <<"p","b","c">>, value, Given(allowed))

set_coulomb_modifier(self, value) ==
    LET allowed == _enum_values(CoulombModifier) IN
    _set_parameter(self, <<"c","o","u","l","o","m","b","-","m","o","d","i","f","i","e","r">>, value, Given(allowed))  \* "coulomb-modifier"

set_vdw_type(self, value) ==
    LET allowed == _enum_values(VDWType) IN
    _set_parameter(self, <<"v","d","w","-","t","y","p","e">>, value, Given(allowed))  \* "vdw-type"

set_vdw_modifier(self, value) ==
    LET allowed == _enum_values(VDWModifier) IN
    _set_parameter(self, <<"v","d","w","-","m","o","d","i","f","i","e","r">>, value, Given(allowed))  \* "vdw-modifier"

set_dispcorr(self, value) ==
    LET allowed == _enum_values(DispCorr) IN
    _set_parameter(self, <<"d","i","s","p","c","o","r","r">>, value, Given(allowed))  \* "dispcorr"

set_coulombtype(self, value) ==
    LET allowed == _enum_values(CoulombType) IN
    _set_parameter(self, <<"c","o","u","l","o","m","b","t","y","p","e">>, value, Given(allowed))  \* "coulombtype"

set_pcoupl(self, value) ==
    LET allowed == _enum_values(Barostat) IN
    _set_parameter(self, <<"p","c","o","u","p","l">>, value, Given(allowed))  \* "pcoupl"

set_constraint_algorithm(self, value) ==
    LET allowed == _enum_values(ConstraintsAlgorithms) IN
    _set_parameter(self, <<"c","o","n","s","t","r","a","i","n","t","-","a","l","g","o","r","i","t","h","m">>, value, Given(allowed))  \* "constraint-algorithm"

set_dt(self, value) == _set_parameter(self, <<"d","t">>, value, None)

set_nsteps(self, value) == _set_parameter(self, <<"n","s","t","e","p","s">>, value, None)  \* "nsteps"

set_mts(self, value) == _set_parameter(self, <<"m","t","s">>, value, None)

\* the typed setter called by name
Setter(name, self, value) ==
    CASE name = "set_integrator" -> set_integrator(self, value)
      [] name = "set_comm_mode" -> set_comm_mode(self, value)
      [] name = "set_cutoff_scheme" -> set_cutoff_scheme(self, value)
      [] name = "set_pbc" -> set_pbc(self, value)
      [] name = "set_coulomb_modifier" -> set_coulomb_modifier(self, value)
      [] name = "set_vdw_type" -> set_vdw_type(self, value)
      [] name = "set_vdw_modifier" -> set_vdw_modifier(self, value)
      [] name = "set_dispcorr" -> set_dispcorr(self, value)
      [] name = "set_coulombtype" -> set_coulombtype(self, value)
      [] name = "set_pcoupl" -> set_pcoupl(self, value)
      [] name = "set_constraint_algorithm" -> set_constraint_algorithm(self, value)
      [] name = "set_dt" -> set_dt(self, value)
      [] name = "set_nsteps" -> set_nsteps(self, value)
      [] name = "set_mts" -> set_mts(self, value)

----------------------------------------------------------------------------
(* gmx_edit_defaults.py *)

DigitChars == { Digit[d] : d \in 1..10 }

\* a run of digits as int() and float() read it: digits, with single
\* underscores between them
IsDigitRun(s) ==
    /\ Len(s) > 0
    /\ \A i \in 1..Len(s) : s[i] \in DigitChars \cup {"_"}
    /\ s[1] # "_"
    /\ s[Len(s)] # "_"
    /\ \A i \in 1..(Len(s) - 1) : ~(s[i] = "_" /\ s[i + 1] = "_")

RECURSIVE RunValue(_, _)
\* the number a run of digits denotes, acc being the number read so far
RunValue(s, acc) ==
    IF s = <<>> THEN acc
    ELSE IF Head(s) = "_" THEN RunValue(Tail(s), acc)
    ELSE RunValue(Tail(s), 10 * acc + (CHOOSE d \in 0..9 : Digit[d + 1] = Head(s)))

\* the digits of a run
DigitCount(s) == Cardinality({ i \in 1..Len(s) : s[i] # "_" })

\* an optional sign and what follows it
Signed(s) ==
    IF Len(s) > 0 /\ s[1] \in {"+", "-"}
    THEN [neg |-> s[1] = "-", body |-> Tail(s)]
    ELSE [neg |-> FALSE, body |-> s]

ValueError == PyError("ValueError", "", <<>>, <<>>)

\* int(text), base 10; returns [raised, value]
int(text) ==
    LET sg == Signed(strip(text)) IN
    IF IsDigitRun(sg.body)
    THEN [raised |-> NoError,
          value |-> PyInt(IF sg.neg THEN -RunValue(sg.body, 0) ELSE RunValue(sg.body, 0))]
    ELSE [raised |-> ValueError, value |-> PyNone]

RECURSIVE Normalised(_, _, _)
\* the float (-1)^neg * m * 10^-k with the trailing zeros of m dropped
Normalised(neg, m, k) ==
    IF k > 0 /\ m % 10 = 0 THEN Normalised(neg, m \div 10, k - 1)
    ELSE PyFloat(IF neg THEN -m ELSE m, k)

\* float(text) of a decimal literal: [sign] digits [. [digits]] or . digits,
\* then an optional exponent e [sign] digits; returns [raised, value].  (The
\* words inf, infinity and nan hold none of '.', 'e', 'E' and never reach
\* float from _parse_value.)
float(text) ==
    LET sg == Signed(strip(text))
        marks == { i \in 1..Len(sg.body) : sg.body[i] \in {"e", "E"} }
        cut == IF marks = {} THEN Len(sg.body) + 1
               ELSE CHOOSE i \in marks : \A j \in marks : i <= j
        mantissa == Take(sg.body, cut - 1)
        ex == Signed(Drop(sg.body, cut))
        dot == partition(mantissa, ".")
        mantissa_ok ==
            IF dot.sep = <<>> THEN IsDigitRun(mantissa)
            ELSE /\ dot.left = <<>> \/ IsDigitRun(dot.left)
                 /\ dot.right = <<>> \/ IsDigitRun(dot.right)
                 /\ dot.left # <<>> \/ dot.right # <<>>
        exponent_ok == marks = {} \/ IsDigitRun(ex.body)
        m == RunValue(dot.left \o dot.right, 0)
        e == IF marks = {} THEN 0
             ELSE IF ex.neg THEN -RunValue(ex.body, 0) ELSE RunValue(ex.body, 0)
        x == e - DigitCount(dot.right)
    IN  IF mantissa_ok /\ exponent_ok
        THEN [raised |-> NoError,
              value |-> IF x >= 0 THEN PyFloat((IF sg.neg THEN -m ELSE m) * Pow10(x), 0)
                        ELSE Normalised(sg.neg, m, -x)]
        ELSE [raised |-> ValueError, value |-> PyNone]

\* numbers are read as text only
_parse_value_NoNumbers(raw) ==
    LET text == strip(raw)
        low == lower(text)
    IN  IF low \in { <<"y","e","s">>, <<"t","r","u","e">>, <<"o","n">> } THEN PyBool(TRUE)  \* "true"
        ELSE IF low \in { <<"n","o">>, <<"f","a","l","s","e">>, <<"o","f","f">> } THEN PyBool(FALSE)  \* "false"
        ELSE PyStr(text)

\* the boolean tokens compared in the case they are written in
_parse_value_CaseSensitive(raw) ==
    LET text == strip(raw)
        low == text
    IN  IF low \in { <<"y","e","s">>, <<"t","r","u","e">>, <<"o","n">> } THEN PyBool(TRUE)  \* "true"
        ELSE IF low \in { <<"n","o">>, <<"f","a","l","s","e">>, <<"o","f","f">> } THEN PyBool(FALSE)  \* "false"
        ELSE LET r == IF \E i \in 1..Len(text) : text[i] \in {".", "e", "E"}
                      THEN float(text)
                      ELSE int(text)
             IN  IF r.raised.kind = "ValueError" THEN PyStr(text) ELSE r.value

_parse_value(raw) ==
    LET text == strip(raw)
        low == lower(text)
    IN  IF low \in { <<"y","e","s">>, <<"t","r","u","e">>, <<"o","n">> } THEN PyBool(TRUE)  \* "true"
        ELSE IF low \in { <<"n","o">>, <<"f","a","l","s","e">>, <<"o","f","f">> } THEN PyBool(FALSE)  \* "false"
        ELSE LET r == IF \E i \in 1..Len(text) : text[i] \in {".", "e", "E"}
                      THEN float(text)
                      ELSE int(text)
             IN  IF r.raised.kind = "ValueError" THEN PyStr(text) ELSE r.value

\* the line boundaries of str.splitlines met in a text file
LineBreaks == {"\n", "\r", "\f"}

RECURSIVE splitlines(_)
\* text.splitlines(): "\r\n" is one boundary, a final boundary ends the
\* last line and opens no empty one
splitlines(s) ==
    LET brk == { i \in 1..Len(s) : s[i] \in LineBreaks } IN
    IF s = <<>> THEN <<>>
    ELSE IF brk = {} THEN <<s>>
    ELSE LET i == CHOOSE b \in brk : \A c \in brk : b <= c
             n == IF s[i] = "\r" /\ i < Len(s) /\ s[i + 1] = "\n" THEN i + 1 ELSE i
         IN  <<Take(s, i - 1)>> \o splitlines(Drop(s, n))

\* a path: exists tells whether there is a file, text what it holds; the
\* argument None of run_gro_custom is a path with none set
Path(exists, text) == [none |-> FALSE, exists |-> exists, text |-> text]
NoPath == [none |-> TRUE, exists |-> FALSE, text |-> <<>>]

\* changes[key] = value on a dict kept as the sequence of its items: a key
\* already there keeps its place and takes the value, a new key goes last
setitem(d, key, value) ==
    IF \E i \in 1..Len(d) : d[i].k = key
    THEN [i \in 1..Len(d) |-> IF d[i].k = key THEN [k |-> key, v |-> value] ELSE d[i]]
    ELSE Append(d, [k |-> key, v |-> value])

RECURSIVE ReadLoop_KeepFirst(_, _)
\* the loop with a key met again keeping the value it has
ReadLoop_KeepFirst(file_lines, changes_) ==
    IF file_lines = <<>> THEN changes_
    ELSE LET s == strip(Head(file_lines))
             p == partition(s, "=")
         IN  IF s = <<>> \/ startswith(s, {"#", ";"})
             THEN ReadLoop_KeepFirst(Tail(file_lines), changes_)
             ELSE IF p.sep = <<>>
             THEN ReadLoop_KeepFirst(Tail(file_lines), changes_)
             ELSE IF \E i \in 1..Len(changes_) : changes_[i].k = strip(p.left)
             THEN ReadLoop_KeepFirst(Tail(file_lines), changes_)
             ELSE ReadLoop_KeepFirst(Tail(file_lines),
                                     setitem(changes_, strip(p.left), _parse_value(p.right)))

RECURSIVE ReadLoop(_, _)
\* the for loop of _read_changes_file over the lines left, changes_ being
\* the dict built so far
ReadLoop(file_lines, changes_) ==
    IF file_lines = <<>> THEN changes_
    ELSE LET s == strip(Head(file_lines))
             p == partition(s, "=")
         IN  IF s = <<>> \/ startswith(s, {"#", ";"})
             THEN ReadLoop(Tail(file_lines), changes_)
             ELSE IF p.sep = <<>>
             THEN ReadLoop(Tail(file_lines), changes_)
             ELSE ReadLoop(Tail(file_lines),
                           setitem(changes_, strip(p.left), _parse_value(p.right)))

\* a path with no file read as an empty file
_read_changes_file_MissingIsEmpty(path) ==
    IF ~path.exists
    THEN [raised |-> NoError, changes |-> <<>>]
    ELSE [raised |-> NoError, changes |-> ReadLoop(splitlines(path.text), <<>>)]

\* returns [raised, changes]: read_text raises FileNotFoundError when there
\* is no file at path
_read_changes_file(path) ==
    IF ~path.exists
    THEN [raised |-> PyError("FileNotFoundError", "", <<>>, <<>>), changes |-> <<>>]
    ELSE [raised |-> NoError, changes |-> ReadLoop(splitlines(path.text), <<>>)]

\* returns [raised, lines, ret]: lines is the caller's list after the call,
\* ret the dict returned
apply_changes(lines_, path) ==
    LET c == _read_changes_file(path) IN
    IF c.raised.kind # "none"
    THEN [raised |-> c.raised, lines |-> lines_, ret |-> <<>>]
    ELSE LET r == change_default_params(lines_, c.changes) IN
         [raised |-> r.raised, lines |-> r.lines,
          ret |-> IF r.raised.kind = "none" THEN c.changes ELSE <<>>]

----------------------------------------------------------------------------
(* Inputs *)

\* lines a run-control file holds: assignments with and without inline
\* comment, a key in another case, a full-line comment, a blank line, a line
\* lacking '='
LinePool ==
    { <<"d","t"," ","="," ","1">>,  \* "dt = 1"
      <<"d","t"," ","="," ","2"," "," ",";"," ","c">>,  \* "dt = 2  ; c"
      <<" ","d","t","\t","="," "," ","3"," ","#"," ","c"," ",";"," ","d">>,  \* " dt\t=  3 # c ; d"
      <<"D","T"," ","="," ","4">>,  \* "DT = 4"
      <<";"," ","d","t"," ","="," ","5">>,  \* "; dt = 5"
      <<" "," ">>,
      <<"d","t"," ","6">>,  \* "dt 6"
      <<"n","s"," ","="," ","7"," ">>,  \* "ns = 7 "
      <<"d","t"," ","=">>,  \* "dt ="
      <<"n","s","=","8",";">>,  \* "ns=8;"
      <<"#","k"," ","="," ","9">> }  \* "#k = 9"

EndToEndBase == << <<"i","n","t","e","g","r","a","t","o","r"," ","="," ","m","d"," ",";"," ","l","e","a","p","-","f","r","o","g">>, <<"d","t"," ","="," ","0",".","0","0","2">>, <<"n","s","t","e","p","s"," ","="," ","5","0","0">> >>  \* "integrator = md ; leap-frog", "dt = 0.002", "nsteps = 500"
TwoDt == << <<"d","t"," ","="," ","0",".","0","0","2">>, <<"d","t"," ","="," ","0",".","0","0","4">> >>  \* "dt = 0.002", "dt = 0.004"
NstlogLine == << <<"n","s","t","l","o","g"," "," "," "," ","="," ","5","0","0"," "," "," ",";"," ","l","o","g"," ","f","r","e","q","u","e","n","c","y">> >>  \* "nstlog    = 500   ; log frequency"

Buffers ==
    UNION { [1..n -> LinePool] : n \in 0..MaxLines } \cup {EndToEndBase, TwoDt, NstlogLine}

Keys ==
    { <<"d","t">>, <<" ","d","t"," ">>, <<"D","T">>, <<"n","s">>, <<"n","s","t","l","o","g">>, <<"n","e","w","-","k","e","y">>,  \* " dt ", "nstlog", "new-key"
      <<"v","e","r","l","e","t","-","b","u","f","f","e","r","-","p","r","e","s","s","u","r","e","-","t","o","l","e","r","a","n","c","e">>, <<"a","=","b">>, <<"#","k">>, <<>> }  \* "verlet-buffer-pressure-tolerance"

Values ==
    { PyInt(1000), PyInt(-5), PyBool(TRUE), PyBool(FALSE), PyFloat(1, 3),
      PyStr(<<" ","m","d"," ">>), PyStr(<<"x",";","y">>), PyEnum(<<"m","d","-","v","v">>), PyNone }  \* " md ", "md-vv"

Entry(k, v) == [k |-> k, v |-> v]

\* a dict with no entry
EmptyDict == [k \in {} |-> PyNone]

\* entries a mapping is made of
MapEntries ==
    { Entry(<<"d","t">>, PyFloat(1, 3)), Entry(<<"n","s">>, PyStr(<<"s","d"," ">>)),
      Entry(<<"n","s","t","l","o","g">>, PyBool(TRUE)), Entry(<<"d","t">>, PyNone) }  \* "nstlog"

\* the items of a dict: no key twice
IsMapping(params) ==
    \A i, j \in 1..Len(params) : i # j => params[i].k # params[j].k

EndToEndMapping == << Entry(<<"n","s","t","e","p","s">>, PyInt(1000)), Entry(<<"n","s","t","l","o","g">>, PyInt(250)) >>  \* "nsteps", "nstlog"

Mappings ==
    { params \in UNION { [1..n -> MapEntries] : n \in 0..MaxEntries } : IsMapping(params) }
    \cup {EndToEndMapping}

\* the typed setters the model calls: every setter that validates against
\* an enumeration, and three of those that pass no allowed values
EnumSetters ==
    { "set_integrator", "set_comm_mode", "set_cutoff_scheme",
      "set_pbc", "set_coulomb_modifier", "set_vdw_type",
      "set_vdw_modifier", "set_dispcorr", "set_coulombtype",
      "set_pcoupl", "set_constraint_algorithm" }
PlainSetters == { "set_dt", "set_nsteps", "set_mts" }

\* the key an enum-validated setter writes and the tokens declared for it
Declared(name) ==
    CASE name = "set_integrator" -> [key |-> <<"i","n","t","e","g","r","a","t","o","r">>, tokens |-> { m.s : m \in Integrator }]  \* "integrator"
      [] name = "set_comm_mode" -> [key |-> <<"c","o","m","m","-","m","o","d","e">>, tokens |-> { m.s : m \in CommMode }]  \* "comm-mode"
      [] name = "set_cutoff_scheme" -> [key |-> <<"c","u","t","o","f","f","-","s","c","h","e","m","e">>, tokens |-> { m.s : m \in NghCutoffScheme }]  \* "cutoff-scheme"
      [] name = "set_pbc" -> [key |-> <<"p","b","c">>, tokens |-> { <<"x","y","z">>, <<"n","o">>, <<"x","y">>, <<"s","c","r","e","w">> }]  \* "screw"
      [] name = "set_coulomb_modifier" -> [key |-> <<"c","o","u","l","o","m","b","-","m","o","d","i","f","i","e","r">>, tokens |-> { m.s : m \in CoulombModifier }]  \* "coulomb-modifier"
      [] name = "set_vdw_type" -> [key |-> <<"v","d","w","-","t","y","p","e">>, tokens |-> { m.s : m \in VDWType }]  \* "vdw-type"
      [] name = "set_vdw_modifier" -> [key |-> <<"v","d","w","-","m","o","d","i","f","i","e","r">>, tokens |-> { m.s : m \in VDWModifier }]  \* "vdw-modifier"
      [] name = "set_dispcorr" -> [key |-> <<"d","i","s","p","c","o","r","r">>, tokens |-> { m.s : m \in DispCorr }]  \* "dispcorr"
      [] name = "set_coulombtype" -> [key |-> <<"c","o","u","l","o","m","b","t","y","p","e">>, tokens |-> { m.s : m \in CoulombType }]  \* "coulombtype"
      [] name = "set_pcoupl" -> [key |-> <<"p","c","o","u","p","l">>, tokens |-> { m.s : m \in Barostat }]  \* "pcoupl"
      [] name = "set_constraint_algorithm" -> [key |-> <<"c","o","n","s","t","r","a","i","n","t","-","a","l","g","o","r","i","t","h","m">>, tokens |-> { m.s : m \in ConstraintsAlgorithms }]  \* "constraint-algorithm"

\* s.upper()
upper(s) ==
    [i \in 1..Len(s) |->
        IF \E n \in 1..Len(LowerCase) : LowerCase[n] = s[i]
        THEN UpperCase[CHOOSE n \in 1..Len(LowerCase) : LowerCase[n] = s[i]]
        ELSE s[i]]

\* arguments for a setter: each declared token as declared, in upper case,
\* in lower case inside whitespace and as an enum member; a string that is
\* no token; values that are no string
CandidatesOf(name) ==
    IF name \in EnumSetters
    THEN UNION { { PyStr(t), PyStr(upper(t)), PyStr(<<" ">> \o lower(t) \o <<"\t">>), PyEnum(t) }
                 : t \in Declared(name).tokens }
         \cup { PyStr(<<"b","o","g","u","s">>), PyInt(5), PyBool(TRUE), PyNone }  \* "bogus"
    ELSE { PyFloat(1, 3), PyStr(<<" ","1"," ">>) }

Candidates == [name \in EnumSetters \cup PlainSetters |-> CandidatesOf(name)]

----------------------------------------------------------------------------
(* The editor as a state machine: a buffer is drawn, one operation runs *)

\* the changes argument of run_gro_custom: None, or a mapping
NoChanges == [none |-> TRUE, items |-> <<>>]
Changes(params) == [none |-> FALSE, items |-> params]

\* the variables a state machine does not use
CopyIdle == returned = <<>> /\ aliased = FALSE
ParseIdle == argRaw = <<>> /\ parsed = PyNone
FileIdle == changes_file = NoPath /\ parsed_from_file = <<>>
RunIdle == pc = 0 /\ changes = NoChanges /\ config = <<>> /\ events = <<>>

Init ==
    /\ lines \in Buffers
    /\ before = <<>>
    /\ op = "init"
    /\ argKey = <<>>
    /\ argValue = PyNone
    /\ argParams = <<>>
    /\ raised = NoError
    /\ hit = 0
    /\ mdp_value = <<>>
    /\ _parameters = EmptyDict
    /\ parameters_before = EmptyDict
    /\ ret = "none"
    /\ calls = 0
    /\ CopyIdle /\ ParseIdle /\ FileIdle /\ RunIdle

\* set_mdp_key(lines, key, value) on the buffer, in place
SetKey(key, value) ==
    /\ op = "init"
    /\ LET r == set_mdp_key(lines, key, value, TRUE) IN
        /\ lines' = r.lines
        /\ raised' = r.raised
        /\ hit' = r.hit
        /\ mdp_value' = r.mdp_value
    /\ before' = lines
    /\ op' = "set"
    /\ argKey' = key
    /\ argValue' = value
    /\ UNCHANGED <<argParams, wrapper, copy, parse, file, run>>

\* set_mdp_key with the key and the value text line i already has: the
\* line is parsed and written back without a value change
Reserialize(i) ==
    /\ ~is_comment(lines[i])
    /\ partition(lines[i], "=").sep # <<>>
    /\ LET p == partition(lines[i], "=")
           value_text == strip(_split_inline_comment(p.right)[1])
       IN  SetKey(strip(p.left), PyStr(value_text))

\* the same call once more, with the same key and value
SetKeyAgain ==
    /\ op = "set"
    /\ raised.kind = "none"
    /\ LET r == set_mdp_key(lines, argKey, argValue, TRUE) IN
        /\ lines' = r.lines
        /\ raised' = r.raised
        /\ hit' = r.hit
        /\ mdp_value' = r.mdp_value
    /\ before' = lines
    /\ op' = "set_again"
    /\ UNCHANGED <<argKey, argValue, argParams, wrapper, copy, parse, file, run>>

\* change_default_params(lines, params)
ChangeDefaultParams(params) ==
    /\ op = "init"
    /\ LET r == change_default_params(lines, params) IN
        /\ lines' = r.lines
        /\ raised' = r.raised
    /\ before' = lines
    /\ op' = "change"
    /\ argParams' = params
    /\ UNCHANGED <<argKey, argValue, hit, mdp_value, wrapper, copy, parse, file, run>>

Next ==
    \/ \E key \in Keys, value \in Values : SetKey(key, value)
    \/ \E i \in 1..Len(lines) : Reserialize(i)
    \/ SetKeyAgain
    \/ \E params \in Mappings : ChangeDefaultParams(params)

Spec == Init /\ [][Next]_vars

----------------------------------------------------------------------------
(* The wrapper as a state machine: typed setters called on one GromacsCustom *)

\* after GromacsCustom(config): the buffer holds the base file, nothing is
\* pending
InitWrapper ==
    /\ lines = EndToEndBase
    /\ before = <<>>
    /\ op = "init"
    /\ argKey = <<>>
    /\ argValue = PyNone
    /\ argParams = <<>>
    /\ raised = NoError
    /\ hit = 0
    /\ mdp_value = <<>>
    /\ _parameters = EmptyDict
    /\ parameters_before = EmptyDict
    /\ ret = "none"
    /\ calls = 0
    /\ CopyIdle /\ ParseIdle /\ FileIdle /\ RunIdle

\* custom_protocol.set_<parameter>(value)
TypedSetter(name, value) ==
    /\ calls < MaxCalls
    /\ \E r \in Setter(name, _parameters, value) :
        /\ _parameters' = r.parameters
        /\ raised' = r.raised
        /\ ret' = r.ret
    /\ parameters_before' = _parameters
    /\ op' = name
    /\ argValue' = value
    /\ calls' = calls + 1
    /\ before' = lines
    /\ UNCHANGED <<lines, argKey, argParams, hit, mdp_value, copy, parse, file, run>>

NextWrapper ==
    \E name \in EnumSetters \cup PlainSetters :
        \E value \in Candidates[name] : TypedSetter(name, value)

SpecWrapper == InitWrapper /\ [][NextWrapper]_vars

----------------------------------------------------------------------------
(* set_mdp_key with inplace given: a buffer is drawn, one call is made *)

\* set_mdp_key(lines, key, value, inplace=inplace)
SetKeyInplace(key, value, inplace) ==
    /\ op = "init"
    /\ LET r == set_mdp_key(lines, key, value, inplace) IN
        /\ lines' = r.lines
        /\ raised' = r.raised
        /\ hit' = r.hit
        /\ mdp_value' = r.mdp_value
        /\ returned' = r.ret
        /\ aliased' = r.aliased
    /\ before' = lines
    /\ op' = IF inplace THEN "set_inplace" ELSE "set_copy"
    /\ argKey' = key
    /\ argValue' = value
    /\ UNCHANGED <<argParams, wrapper, parse, file, run>>

NextCopy ==
    \E key \in Keys, value \in Values, inplace \in BOOLEAN :
        SetKeyInplace(key, value, inplace)

SpecCopy == Init /\ [][NextCopy]_vars

----------------------------------------------------------------------------
(* _parse_value: a raw text is drawn and parsed; what it gave is formatted *)
(* by format_gmx_value and parsed again                                    *)

\* the six boolean tokens in lower case, in upper case, capitalised and
\* inside whitespace; numerals; words that are no number, with and without
\* '.', 'e', 'E'
RawTexts ==
    { <<"y","e","s">>, <<"t","r","u","e">>, <<"o","n">>, <<"n","o">>, <<"f","a","l","s","e">>, <<"o","f","f">>,  \* "true", "false"
      <<"Y","E","S">>, <<"T","R","U","E">>, <<"O","N">>, <<"N","O">>, <<"F","A","L","S","E">>, <<"O","F","F">>,  \* "TRUE", "FALSE"
      <<"Y","e","s">>, <<"T","r","u","e">>, <<"O","n">>, <<"N","o">>, <<"F","a","l","s","e">>, <<"O","f","f">>,  \* "True", "False"
      <<" ","y","e","s">>, <<"t","r","u","e"," ">>, <<"\t","o","n"," ">>, <<" ","n","o","\t">>, <<" "," ","f","a","l","s","e">>, <<" ","o","f","f"," ">>,  \* " yes", "true ", "\ton ", " no\t", "  false", " off "
      <<"0",".","0","0","1">>, <<"1","0","0">>, <<"m","d">>, <<" ","0",".","0","0","2"," ">>, <<"-","5">>, <<"+","7">>, <<"0","0","7">>, <<"1","_","0","0","0">>,  \* "0.001", " 0.002 ", "1_000"
      <<"1","e","3">>, <<"1","E","-","3">>, <<"2",".","5","e","-","2">>, <<"5",".">>, <<".","5">>, <<"-","0",".","2","5">>, <<"1",".","5","0">>, <<"0",".","0","0","0","5">>,  \* "1E-3", "2.5e-2", "-0.25", "1.50", "0.0005"
      <<>>, <<" ">>, <<"e">>, <<".">>, <<"s","t","e","e","p">>, <<"P","M","E">>, <<"h","-","b","o","n","d","s">>, <<"1",".","2",".","3">>, <<"1","2","a">>,  \* "steep", "h-bonds", "1.2.3"
      <<"1","e">>, <<"e","5">>, <<"1"," ","0","0","0">>, <<"5","_">>, <<"y","e","s","s">>, <<"o"," ","n">>, <<"0",".","0","0","2"," ",";"," ","c">>, <<"x",";","y">>,  \* "1 000", "yess", "0.002 ; c"
      <<"1",".","e","2">>, <<"-","-","5">>, <<"1","_","_","0">> }  \* "1.e2", "1__0"

InitParse ==
    /\ lines = <<>>
    /\ before = <<>>
    /\ op = "init"
    /\ argKey = <<>>
    /\ argValue = PyNone
    /\ argParams = <<>>
    /\ raised = NoError
    /\ hit = 0
    /\ mdp_value = <<>>
    /\ _parameters = EmptyDict
    /\ parameters_before = EmptyDict
    /\ ret = "none"
    /\ calls = 0
    /\ argRaw \in RawTexts
    /\ parsed = PyNone
    /\ CopyIdle /\ FileIdle /\ RunIdle

\* _parse_value(raw)
ParseValue ==
    /\ op = "init"
    /\ parsed' = _parse_value(argRaw)
    /\ op' = "parse"
    /\ UNCHANGED <<lines, before, argKey, argValue, argParams, raised, hit,
                   mdp_value, argRaw, wrapper, copy, file, run>>

\* _parse_value(format_gmx_value(value)) of the value the parse gave
FormatParse ==
    /\ op = "parse"
    /\ LET f == format_gmx_value(parsed) IN
        /\ raised' = f.raised
        /\ mdp_value' = f.text
        /\ parsed' = IF f.raised.kind = "none" THEN _parse_value(f.text) ELSE PyNone
    /\ argValue' = parsed
    /\ op' = "format_parse"
    /\ UNCHANGED <<lines, before, argKey, argParams, hit, argRaw, wrapper, copy,
                   file, run>>

NextParse == ParseValue \/ FormatParse

SpecParse == InitParse /\ [][NextParse]_vars

----------------------------------------------------------------------------
(* apply_changes: a buffer and an override file are drawn, one call is made *)

\* lines an override file holds: assignments, one with text after the
\* value, keys met twice, a line with an empty key, comments, a blank line,
\* a line lacking '='
FileLinePool ==
    { <<"d","t"," ","="," ","0",".","0","0","1">>,  \* "dt = 0.001"
      <<"d","t","=","0",".","0","0","4">>,  \* "dt=0.004"
      <<"d","t"," ","="," ","0",".","0","0","2"," ",";"," ","c">>,  \* "dt = 0.002 ; c"
      <<" ","n","s","t","e","p","s"," ","="," ","1","0","0"," ">>,  \* " nsteps = 100 "
      <<"n","s","t","l","o","g"," ","="," ","y","e","s">>,  \* "nstlog = yes"
      <<"i","n","t","e","g","r","a","t","o","r","=","s","t","e","e","p">>,  \* "integrator=steep"
      <<"=","5">>,
      <<"#"," ","d","t"," ","="," ","9">>,  \* "# dt = 9"
      <<";"," ","c">>,
      <<" "," ">>,
      <<>>,
      <<"i","n","t","e","g","r","a","t","o","r">> }  \* "integrator"

RECURSIVE JoinLines(_)
\* the text of a file with the given lines, each ended by a newline
JoinLines(ls) ==
    IF ls = <<>> THEN <<>> ELSE Head(ls) \o <<"\n">> \o JoinLines(Tail(ls))

EndToEndFile == <<"d","t"," ","="," ","0",".","0","0","1","\r","\n","\r","\n","n","s","t","e","p","s"," ","="," ","1","0","0","\n","#"," ","c","\n","n","s","t","l","o","g"," ","="," ","2","5","0">>  \* "dt = 0.001\r\n\r\nnsteps = 100\n# c\nnstlog = 250"

\* a path with no file; files of up to MaxFileLines lines
ChangeFiles ==
    { Path(FALSE, <<>>), Path(TRUE, EndToEndFile) }
    \cup { Path(TRUE, JoinLines(ls)) :
             ls \in UNION { [1..n -> FileLinePool] : n \in 0..MaxFileLines } }

FileBuffers ==
    { <<>>, EndToEndBase, TwoDt, NstlogLine, << <<"n","s","t","e","p","s"," ","="," ","5"," ",";"," ","n">>, <<"#"," ","c">>, <<"d","t"," ","="," ","1">> >> }  \* "nsteps = 5 ; n", "dt = 1"

InitFile ==
    /\ lines \in FileBuffers
    /\ before = <<>>
    /\ op = "init"
    /\ argKey = <<>>
    /\ argValue = PyNone
    /\ argParams = <<>>
    /\ raised = NoError
    /\ hit = 0
    /\ mdp_value = <<>>
    /\ _parameters = EmptyDict
    /\ parameters_before = EmptyDict
    /\ ret = "none"
    /\ calls = 0
    /\ changes_file \in ChangeFiles
    /\ parsed_from_file = <<>>
    /\ CopyIdle /\ ParseIdle /\ RunIdle

\* apply_changes(lines, changes_file)
ApplyChanges ==
    /\ op = "init"
    /\ \E r \in {apply_changes(lines, changes_file)} :
        /\ lines' = r.lines
        /\ raised' = r.raised
        /\ parsed_from_file' = r.ret
    /\ before' = lines
    /\ op' = "apply_changes"
    /\ UNCHANGED <<argKey, argValue, argParams, hit, mdp_value, changes_file,
                   wrapper, copy, parse, run>>

NextFile == ApplyChanges

SpecFile == InitFile /\ [][NextFile]_vars

----------------------------------------------------------------------------
(* run_gro_custom, statement by statement *)

\* the body with the mapping applied before the file
Statements_MappingFirst ==
    << "getConfig", "change_default_params", "apply_changes", "setConfig",
       "Gromacs", "start", "wait", "getSystem" >>

\* the body with the process started before the overrides are applied
Statements_StartFirst ==
    << "getConfig", "Gromacs", "start", "apply_changes", "change_default_params",
       "setConfig", "wait", "getSystem" >>

\* the calls of the body after custom_protocol is constructed, in the order
\* they are written
Statements ==
    << "getConfig", "apply_changes", "change_default_params", "setConfig",
       "Gromacs", "start", "wait", "getSystem" >>

RunConfigs == { EndToEndBase, <<>>, << <<"d","t"," ","="," ","1"," "," ",";"," ","c">>, <<"n","s"," ","="," ","2">> >> }  \* "dt = 1  ; c", "ns = 2"

RunFiles ==
    { NoPath, Path(FALSE, <<>>), Path(TRUE, EndToEndFile),
      Path(TRUE, <<"d","t"," ","="," ","0",".","0","0","1","\n","n","s"," ","="," ","7","\n">>), Path(TRUE, <<"d","t"," ","="," ","0",".","0","0","2"," ",";"," ","c","\n","=","5","\n">>) }  \* "dt = 0.001\nns = 7\n", "dt = 0.002 ; c\n=5\n"

RunMappings ==
    { NoChanges, Changes(<< Entry(<<"d","t">>, PyFloat(5, 4)) >>) }
    \cup { Changes(params) : params \in Mappings }

\* after custom_protocol = GromacsCustom(parameters)
InitRun ==
    /\ config \in RunConfigs
    /\ changes_file \in RunFiles
    /\ changes \in RunMappings
    /\ lines = <<>>
    /\ before = <<>>
    /\ op = "init"
    /\ argKey = <<>>
    /\ argValue = PyNone
    /\ argParams = <<>>
    /\ raised = NoError
    /\ hit = 0
    /\ mdp_value = <<>>
    /\ _parameters = EmptyDict
    /\ parameters_before = EmptyDict
    /\ ret = "none"
    /\ calls = 0
    /\ parsed_from_file = <<>>
    /\ pc = 0
    /\ events = <<>>
    /\ CopyIdle /\ ParseIdle

\* the statement the run is at
At(stmt) ==
    /\ raised.kind = "none"
    /\ pc < Len(Statements)
    /\ Statements[pc + 1] = stmt

\* the statement is done: the run is at the next one
Done(stmt, called) ==
    /\ pc' = pc + 1
    /\ op' = stmt
    /\ events' = IF called THEN Append(events, stmt) ELSE events

idle == <<before, argKey, argValue, argParams, hit, mdp_value, wrapper, copy, parse>>

\* lines = custom_protocol.getConfig()
GetConfig ==
    /\ At("getConfig")
    /\ lines' = config
    /\ Done("getConfig", TRUE)
    /\ UNCHANGED <<raised, changes_file, parsed_from_file, changes, config, idle>>

\* if changes_file is not None: parsed_from_file = apply_changes(lines, changes_file)
RunApplyChanges ==
    /\ At("apply_changes")
    /\ IF changes_file.none
       THEN UNCHANGED <<lines, raised, parsed_from_file>>
       ELSE \E r \in {apply_changes(lines, changes_file)} :
            /\ lines' = r.lines
            /\ raised' = r.raised
            /\ parsed_from_file' = r.ret
    /\ Done("apply_changes", ~changes_file.none)
    /\ UNCHANGED <<changes_file, changes, config, idle>>

\* if changes is not None: change_default_params(lines, changes)
RunChangeDefaultParams ==
    /\ At("change_default_params")
    /\ IF changes.none
       THEN UNCHANGED <<lines, raised>>
       ELSE \E r \in {change_default_params(lines, changes.items)} :
            /\ lines' = r.lines
            /\ raised' = r.raised
    /\ Done("change_default_params", ~changes.none)
    /\ UNCHANGED <<changes_file, parsed_from_file, changes, config, idle>>

\* custom_protocol.setConfig(lines)
SetConfig ==
    /\ At("setConfig")
    /\ config' = lines
    /\ Done("setConfig", TRUE)
    /\ UNCHANGED <<lines, raised, changes_file, parsed_from_file, changes, idle>>

\* process = BSS.Process.Gromacs(system, protocol=custom_protocol);
\* process.start(); process.wait(); process.getSystem(block=True)
ProcessCall(stmt) ==
    /\ stmt \in {"Gromacs", "start", "wait", "getSystem"}
    /\ At(stmt)
    /\ Done(stmt, TRUE)
    /\ UNCHANGED <<lines, raised, changes_file, parsed_from_file, changes, config, idle>>

NextRun ==
    \/ GetConfig
    \/ RunApplyChanges
    \/ RunChangeDefaultParams
    \/ SetConfig
    \/ \E stmt \in {"Gromacs", "start", "wait", "getSystem"} : ProcessCall(stmt)

SpecRun == InitRun /\ [][NextRun]_vars

----------------------------------------------------------------------------
(* What the claims speak of, stated on the characters of a line and not    *)
(* through the operators of the editor                                     *)

SetMin(S) == CHOOSE x \in S : \A y \in S : x <= y
SetMax(S) == CHOOSE x \in S : \A y \in S : x >= y

\* s without its leading and trailing whitespace
Trimmed(s) ==
    LET solid == { i \in 1..Len(s) : s[i] \notin WhiteSpace } IN
    IF solid = {} THEN <<>> ELSE SubSeq(s, SetMin(solid), SetMax(solid))

\* blank, or the first non-whitespace character is '#' or ';'
BlankOrComment(ln) ==
    \A i \in 1..Len(ln) :
        (\A j \in 1..(i - 1) : ln[j] \in WhiteSpace) => ln[i] \in WhiteSpace \cup {"#", ";"}

\* positions of '=' in ln
EqualsAt(ln) == { i \in 1..Len(ln) : ln[i] = "=" }

\* ln is an assignment whose text left of the first '=' is key, both trimmed
AssignsKey(ln, key) ==
    /\ ~BlankOrComment(ln)
    /\ EqualsAt(ln) # {}
    /\ Trimmed(SubSeq(ln, 1, SetMin(EqualsAt(ln)) - 1)) = Trimmed(key)

\* the lines of buf that assign key
AssigningLines(buf, key) == { i \in 1..Len(buf) : AssignsKey(buf[i], key) }

\* the parts of an assignment line: left of the first '=', the whitespace
\* after it, the value token, the whitespace after the token, the comment
\* from the earliest ';' or '#' of the value region
LineParts(ln) ==
    LET eq == SetMin(EqualsAt(ln))
        region == SubSeq(ln, eq + 1, Len(ln))
        marks == { i \in 1..Len(region) : region[i] \in {";", "#"} }
        cut == IF marks = {} THEN Len(region) + 1 ELSE SetMin(marks)
        text == SubSeq(region, 1, cut - 1)
        solid == { i \in 1..Len(text) : text[i] \notin WhiteSpace }
    IN  [left |-> SubSeq(ln, 1, eq - 1),
         lead |-> IF solid = {} THEN text ELSE SubSeq(text, 1, SetMin(solid) - 1),
         token |-> Trimmed(text),
         trail |-> IF solid = {} THEN <<>> ELSE SubSeq(text, SetMax(solid) + 1, Len(text)),
         comment |-> SubSeq(region, cut, Len(region))]

\* a set_mdp_key call has just returned normally
SetReturned == op \in {"set", "set_again"} /\ raised.kind = "none"

----------------------------------------------------------------------------
(* C1..C6: the key/value editor *)

\* C1: set_mdp_key either rewrites exactly one existing line, a line that
\* assigns the key, and keeps the length, or appends exactly one line at the
\* end; every other line is the same text at the same index.
C1_FrameEffect ==
    SetReturned =>
        \/ /\ Len(lines) = Len(before)
           /\ \E i \in AssigningLines(before, argKey) :
                \A j \in 1..Len(before) : j # i => lines[j] = before[j]
        \/ /\ Len(lines) = Len(before) + 1
           /\ \A j \in 1..Len(before) : lines[j] = before[j]

\* a call rewrote line 2 of a three-line buffer and left lines 1 and 3 alone
C1_Witness ==
    /\ op = "set" /\ raised.kind = "none"
    /\ Len(before) = 3 /\ Len(lines) = 3
    /\ lines[2] # before[2] /\ lines[1] = before[1] /\ lines[3] = before[3]

\* C2: the line edited is the first line, top to bottom, that is no blank or
\* comment line, holds '=' and whose trimmed text left of the first '='
\* equals the trimmed key exactly (case-sensitively); every other line,
\* later lines with the same key included, is untouched; with no such line
\* nothing is edited and one line is appended.
C2_FirstMatchWins ==
    SetReturned =>
        LET M == AssigningLines(before, argKey) IN
        IF M = {}
        THEN /\ hit = 0
             /\ Len(lines) = Len(before) + 1
             /\ \A j \in 1..Len(before) : lines[j] = before[j]
        ELSE /\ hit = SetMin(M)
             /\ Len(lines) = Len(before)
             /\ \A j \in 1..Len(before) : j # hit => lines[j] = before[j]

\* two lines assign dt after a full-line comment naming it: the first of the
\* two was rewritten, the second kept
C2_Witness ==
    /\ op = "set" /\ raised.kind = "none"
    /\ argKey = <<"d","t">>
    /\ Len(before) = 2
    /\ AssigningLines(before, argKey) = {1, 2}
    /\ hit = 1
    /\ lines[1] # before[1]
    /\ lines[2] = before[2]

\* C3: the edited line is left + '=' + the whitespace before the old value +
\* the formatted value + the inline comment, and the whitespace that stood
\* between the old value and the comment is kept with the comment.
C3_CommentPreservation ==
    (SetReturned /\ hit # 0) =>
        LET old == LineParts(before[hit]) IN
        lines[hit] = old.left \o <<"=">> \o old.lead \o mdp_value
                        \o (IF old.comment = <<>> THEN <<>> ELSE old.trail) \o old.comment

\* C4: with no line assigning the key, the line appended is the trimmed key
\* left-justified in a field of at least 28 characters (a longer key whole),
\* then ' = ', then the formatted value, and nothing else.
C4_AppendOnMiss ==
    (SetReturned /\ AssigningLines(before, argKey) = {}) =>
        /\ Len(lines) = Len(before) + 1
        /\ LET new == lines[Len(lines)]
               key == Trimmed(argKey)
               width == IF Len(key) > 28 THEN Len(key) ELSE 28
           IN  /\ Len(new) = width + 3 + Len(mdp_value)
               /\ SubSeq(new, 1, Len(key)) = key
               /\ \A i \in (Len(key) + 1)..width : new[i] = " "
               /\ SubSeq(new, width + 1, width + 3) = <<" ","="," ">>
               /\ SubSeq(new, width + 4, Len(new)) = mdp_value

\* a key shorter than the field was appended behind an existing line
C4_Witness ==
    /\ op = "set" /\ raised.kind = "none"
    /\ argKey = <<"n","e","w","-","k","e","y">> /\ argValue = PyInt(1000)  \* "new-key"
    /\ before # <<>>
    /\ lines = Append(before, <<"n","e","w","-","k","e","y"," "," "," "," "," "," "," "," "," "," "," "," "," "," "," "," "," "," "," "," "," "," ","="," ","1","0","0","0">>)  \* "new-key                      = 1000"

\* C5: the same call a second time, same key and value, leaves the buffer as
\* the first call left it.
C5_Idempotent ==
    op = "set_again" => lines = before

\* C6: writing back the value text an assignment line already has gives the
\* line back byte for byte.
C6_RoundTrip ==
    (op = "set" /\ raised.kind = "none" /\ hit # 0
        /\ argValue = PyStr(LineParts(before[hit]).token))
    => lines[hit] = before[hit]

----------------------------------------------------------------------------
(* C7: the value formatter *)

\* the number a decimal numeral without sign denotes
RECURSIVE NumeralValue(_)
NumeralValue(s) ==
    IF s = <<>> THEN 0
    ELSE 10 * NumeralValue(SubSeq(s, 1, Len(s) - 1))
         + (CHOOSE d \in 0..9 : Digit[d + 1] = s[Len(s)])

IsNumeral(s) ==
    /\ s # <<>>
    /\ \A i \in 1..Len(s) : \E d \in 1..10 : Digit[d] = s[i]
    /\ Len(s) > 1 => s[1] # "0"

\* C7: a bool gives yes or no and never a number, an int its base-10 text, a
\* float its decimal text, a str itself stripped, an enum member its string
\* stripped; any other type raises TypeError naming the type and writes
\* nothing.
C7_FormatValue ==
    op = "set" =>
        CASE argValue.type = "bool" ->
                /\ raised.kind = "none"
                /\ mdp_value = IF argValue.b THEN <<"y","e","s">> ELSE <<"n","o">>
          [] argValue.type = "int" ->
                /\ raised.kind = "none"
                /\ IF argValue.n < 0
                   THEN /\ Head(mdp_value) = "-"
                        /\ IsNumeral(Tail(mdp_value))
                        /\ NumeralValue(Tail(mdp_value)) = -argValue.n
                   ELSE /\ IsNumeral(mdp_value)
                        /\ NumeralValue(mdp_value) = argValue.n
          [] argValue.type = "float" ->
                /\ raised.kind = "none"
                /\ \E dot \in 2..(Len(mdp_value) - 1) :
                    /\ mdp_value[dot] = "."
                    /\ IsNumeral(SubSeq(mdp_value, 1, dot - 1))
                    /\ Len(mdp_value) - dot = (IF argValue.k = 0 THEN 1 ELSE argValue.k)
                    /\ NumeralValue(SubSeq(mdp_value, 1, dot - 1)) * Pow10(Len(mdp_value) - dot)
                         + NumeralValue(SubSeq(mdp_value, dot + 1, Len(mdp_value)))
                       = argValue.n * (IF argValue.k = 0 THEN 10 ELSE 1)
          [] argValue.type \in {"str", "StrEnum"} ->
                /\ raised.kind = "none"
                /\ mdp_value = Trimmed(argValue.s)
          [] OTHER ->
                /\ raised = PyError("TypeError", argValue.type, <<>>, <<>>)
                /\ lines = before

\* True was formatted as yes
C7_Witness ==
    /\ op = "set" /\ raised.kind = "none"
    /\ argValue = PyBool(TRUE)
    /\ mdp_value = <<"y","e","s">>

----------------------------------------------------------------------------
(* C10: the bulk change applier *)

\* the entries of params whose key no line of buf assigns, in order
AbsentEntries(buf, params) ==
    SelectSeq(params, LAMBDA e : AssigningLines(buf, e.k) = {})

\* the text the formatter gives a supported value
FormattedText(v) == format_gmx_value(v).text

\* C10: change_default_params applies set_mdp_key once per entry in the
\* mapping's order: every old line keeps its index and changes only if it is
\* the first line assigning an entry's key, in which case it is that line
\* edited in place with the entry's value; the keys no line assigned are
\* appended behind the last old line, one line each, in mapping order; the
\* end-to-end scenario gives the three old positions with nsteps = 1000 and
\* a fourth line for nstlog padded to 28 characters.
C10_FoldInOrder ==
    (op = "change" /\ raised.kind = "none") =>
        LET absent == AbsentEntries(before, argParams) IN
        /\ Len(lines) = Len(before) + Len(absent)
        /\ \A i \in 1..Len(before) :
             \/ /\ lines[i] = before[i]
                /\ \A n \in 1..Len(argParams) :
                     AssigningLines(before, argParams[n].k) # {}
                     => SetMin(AssigningLines(before, argParams[n].k)) # i
             \/ \E n \in 1..Len(argParams) :
                  /\ AssigningLines(before, argParams[n].k) # {}
                  /\ SetMin(AssigningLines(before, argParams[n].k)) = i
                  /\ lines[i] = EditLine(before[i], FormattedText(argParams[n].v))
        /\ \A j \in 1..Len(absent) :
             lines[Len(before) + j]
               = AppendLine(Trimmed(absent[j].k), FormattedText(absent[j].v))
        /\ (before = EndToEndBase /\ argParams = EndToEndMapping) =>
             lines = << <<"i","n","t","e","g","r","a","t","o","r"," ","="," ","m","d"," ",";"," ","l","e","a","p","-","f","r","o","g">>, <<"d","t"," ","="," ","0",".","0","0","2">>, <<"n","s","t","e","p","s"," ","="," ","1","0","0","0">>,  \* "integrator = md ; leap-frog", "dt = 0.002", "nsteps = 1000"
                        <<"n","s","t","l","o","g">> \o Spaces(22) \o <<" ","="," ","2","5","0">> >>  \* "nstlog", " = 250"

\* the end-to-end scenario ran: one key edited in place, one appended
C10_Witness ==
    /\ op = "change" /\ raised.kind = "none"
    /\ before = EndToEndBase /\ argParams = EndToEndMapping
    /\ Len(lines) = 4
    /\ lines[3] # before[3]

----------------------------------------------------------------------------
(* C8, C9: the validated protocol wrapper *)

\* a and b are the same text up to the case of letters
SameIgnoringCase(a, b) ==
    /\ Len(a) = Len(b)
    /\ \A i \in 1..Len(a) :
         \/ a[i] = b[i]
         \/ \E n \in 1..Len(UpperCase) : {a[i], b[i]} = {UpperCase[n], LowerCase[n]}

\* the last call was an enum-validated setter given the str cand
EnumSetterGotStr == op \in EnumSetters /\ argValue.type = "str"

\* the call recorded token t for its key, or failed naming key and candidate
RecordedOrInvalid(matching) ==
    LET d == Declared(op) IN
    IF matching # {}
    THEN /\ raised.kind = "none"
         /\ d.key \in DOMAIN _parameters
         /\ \E t \in matching : _parameters[d.key] = PyStr(t)
    ELSE raised = PyError("ValueError", "", d.key, argValue.s)

\* C8 as stated: a candidate equal to a declared token up to case is recorded
\* as that token in its declared casing; when no declared token equals the
\* candidate up to case the call fails with InvalidEnumValue (ValueError)
\* naming the key and the candidate.
C8_AsStated ==
    EnumSetterGotStr =>
        RecordedOrInvalid({ t \in Declared(op).tokens : SameIgnoringCase(t, argValue.s) })

\* C8 amended: the candidate is compared after its leading and trailing
\* whitespace is removed: a candidate whose trimmed text equals a declared
\* token up to case is recorded as that token in its declared casing; when
\* no declared token equals the trimmed candidate up to case the call fails
\* with ValueError naming the key and the candidate as passed.
C8_Canonicalize ==
    EnumSetterGotStr =>
        RecordedOrInvalid({ t \in Declared(op).tokens :
                              SameIgnoringCase(t, Trimmed(argValue.s)) })

\* set_integrator("MD") recorded md
C8_Witness ==
    /\ op = "set_integrator" /\ argValue = PyStr(<<"M","D">>)
    /\ raised.kind = "none"
    /\ <<"i","n","t","e","g","r","a","t","o","r">> \in DOMAIN _parameters  \* "integrator"
    /\ _parameters[<<"i","n","t","e","g","r","a","t","o","r">>] = PyStr(<<"m","d">>)  \* "integrator"

\* C9: whatever setters were called, with whatever casing and whether they
\* failed or not, the value pending for an enum-validated key is unset or
\* one of the tokens declared for it, in the declared casing.
C9_StoredCanonical ==
    \A name \in EnumSetters :
        LET d == Declared(name) IN
        d.key \in DOMAIN _parameters =>
            \E t \in d.tokens : _parameters[d.key] = PyStr(t)

\* a second setter call, given LINEAR, recorded Linear beside the token the
\* first call recorded
C9_Witness ==
    /\ calls = 2
    /\ op = "set_comm_mode" /\ argValue = PyStr(<<"L","I","N","E","A","R">>)  \* "LINEAR"
    /\ <<"c","o","m","m","-","m","o","d","e">> \in DOMAIN _parameters  \* "comm-mode"
    /\ _parameters[<<"c","o","m","m","-","m","o","d","e">>] = PyStr(<<"L","i","n","e","a","r">>)  \* "comm-mode", "Linear"
    /\ <<"i","n","t","e","g","r","a","t","o","r">> \in DOMAIN _parameters  \* "integrator"

----------------------------------------------------------------------------
(* C12, C13: the parser of override values *)

\* s is one of the words, up to the case of letters
IsWord(s, words) == \E w \in words : SameIgnoringCase(s, w)

TrueWords == { <<"y","e","s">>, <<"t","r","u","e">>, <<"o","n">> }  \* "true"
FalseWords == { <<"n","o">>, <<"f","a","l","s","e">>, <<"o","f","f">> }  \* "false"

AllDigits(s) == s # <<>> /\ \A i \in 1..Len(s) : \E d \in 1..10 : Digit[d] = s[i]

\* s without a leading sign, and the factor the sign stands for
Unsigned(s) == IF s # <<>> /\ s[1] \in {"+", "-"} THEN SubSeq(s, 2, Len(s)) ELSE s
SignOf(s) == IF s # <<>> /\ s[1] = "-" THEN -1 ELSE 1

\* positions of '.' in s
DotsAt(s) == { i \in 1..Len(s) : s[i] = "." }

\* s is digits '.' digits behind an optional sign
IsPlainDecimal(s) ==
    LET u == Unsigned(s) IN
    /\ Cardinality(DotsAt(u)) = 1
    /\ AllDigits(SubSeq(u, 1, SetMin(DotsAt(u)) - 1))
    /\ AllDigits(SubSeq(u, SetMin(DotsAt(u)) + 1, Len(u)))

\* the float v is the number the plain decimal s denotes
DenotedBy(v, s) ==
    LET u == Unsigned(s)
        dot == SetMin(DotsAt(u))
        digits == SubSeq(u, 1, dot - 1) \o SubSeq(u, dot + 1, Len(u))
    IN  v.n * Pow10(Len(u) - dot) = SignOf(s) * NumeralValue(digits) * Pow10(v.k)

\* C12: the yes/true/on words in any case give True and the no/false/off
\* words False; any other text holding '.', 'e' or 'E' gives a float or,
\* when it is no number, itself trimmed as a str, and never an int; any
\* other text gives an int or itself trimmed as a str, and never a float; a
\* plain decimal gives the float it denotes and a plain run of digits the
\* int it denotes; '0.001' gives the float 0.001, '100' the int 100 and
\* 'md' the str 'md'.
C12_ParsePrecedence ==
    op = "parse" =>
        LET t == Trimmed(argRaw) IN
        IF IsWord(t, TrueWords) THEN parsed = PyBool(TRUE)
        ELSE IF IsWord(t, FalseWords) THEN parsed = PyBool(FALSE)
        ELSE /\ IF \E i \in 1..Len(t) : t[i] \in {".", "e", "E"}
                THEN parsed.type \in {"float", "str"}
                ELSE parsed.type \in {"int", "str"}
             /\ parsed.type = "str" => parsed.s = t
             /\ IsPlainDecimal(t) => parsed.type = "float" /\ DenotedBy(parsed, t)
             /\ AllDigits(Unsigned(t)) =>
                  parsed = PyInt(SignOf(t) * NumeralValue(Unsigned(t)))
             /\ argRaw = <<"0",".","0","0","1">> => parsed = PyFloat(1, 3)  \* "0.001"
             /\ argRaw = <<"1","0","0">> => parsed = PyInt(100)
             /\ argRaw = <<"m","d">> => parsed = PyStr(<<"m","d">>)

\* ' 0.002 ' was parsed as the float 0.002
C12_Witness ==
    /\ op = "parse"
    /\ argRaw = <<" ","0",".","0","0","2"," ">>  \* " 0.002 "
    /\ parsed = PyFloat(2, 3)

\* C13: the text format_gmx_value gives a bool parses back to that bool,
\* and every boolean word, in any case, parses to a bool that formats to
\* yes when the word is one of yes/true/on and to no when it is one of
\* no/false/off.
C13_BoolRoundTrip ==
    /\ (op = "format_parse" /\ argValue.type = "bool") =>
         /\ raised.kind = "none"
         /\ parsed = argValue
         /\ mdp_value = IF argValue.b THEN <<"y","e","s">> ELSE <<"n","o">>
    /\ (op = "parse" /\ IsWord(Trimmed(argRaw), TrueWords \cup FalseWords)) =>
         /\ parsed.type = "bool"
         /\ parsed.b = IsWord(Trimmed(argRaw), TrueWords)
         /\ FormattedText(parsed) = IF IsWord(Trimmed(argRaw), TrueWords) THEN <<"y","e","s">> ELSE <<"n","o">>

\* OFF was parsed as False, False formatted as no, no parsed as False
C13_Witness ==
    /\ op = "format_parse"
    /\ argRaw = <<"O","F","F">>
    /\ argValue = PyBool(FALSE)
    /\ mdp_value = <<"n","o">>
    /\ parsed = PyBool(FALSE)

----------------------------------------------------------------------------
(* C14, C18, C20: the override file applier *)

\* the lines of the file that are no blank line and no comment and hold '='
MeaningfulLines(path) ==
    SelectSeq(splitlines(path.text), LAMBDA ln : ~BlankOrComment(ln) /\ EqualsAt(ln) # {})

\* the key and the value such a line gives
PairOf(ln) ==
    LET eq == SetMin(EqualsAt(Trimmed(ln))) IN
    [k |-> Trimmed(SubSeq(Trimmed(ln), 1, eq - 1)),
     v |-> _parse_value(SubSeq(Trimmed(ln), eq + 1, Len(Trimmed(ln))))]

FilePairs(path) ==
    LET ml == MeaningfulLines(path) IN [n \in 1..Len(ml) |-> PairOf(ml[n])]

RECURSIVE ApplyEach(_, _)
\* buf after set_mdp_key is called once per pair, in order
ApplyEach(buf, pairs) ==
    IF pairs = <<>> THEN buf
    ELSE ApplyEach(set_mdp_key(buf, Head(pairs).k, Head(pairs).v, TRUE).lines, Tail(pairs))

\* an apply_changes call has just returned normally
ChangesApplied == op = "apply_changes" /\ raised.kind = "none"

\* C14: apply_changes given a path with no file fails with
\* FileNotFoundError, the buffer is what it was before the call and nothing
\* is returned.
C14_MissingFile ==
    (op = "apply_changes" /\ ~changes_file.exists) =>
        /\ raised.kind = "FileNotFoundError"
        /\ lines = before
        /\ parsed_from_file = <<>>

\* the call on the base file with a missing path failed
C14_Witness ==
    /\ op = "apply_changes"
    /\ ~changes_file.exists
    /\ before = EndToEndBase
    /\ raised.kind = "FileNotFoundError"

FirstMet(pairs) ==
    { n \in 1..Len(pairs) : \A m \in 1..(n - 1) : pairs[m].k # pairs[n].k }

C20_EmptyKeySkipped ==
    ChangesApplied =>
        /\ \A j \in 1..Len(parsed_from_file) : parsed_from_file[j].k # <<>>
        /\ (\A n \in 1..Len(FilePairs(changes_file)) : FilePairs(changes_file)[n].k = <<>>)
             => lines = before

----------------------------------------------------------------------------
(* C16: the list set_mdp_key returns *)

\* C16: with inplace false the list passed is left as it was and the list
\* returned is another list, equal to the one the in-place call leaves;
\* with inplace true the list returned is the list passed, edited.
C16_CopyOrInplace ==
    /\ (op = "set_copy" /\ raised.kind = "none") =>
         /\ lines = before
         /\ ~aliased
         /\ returned = set_mdp_key(before, argKey, argValue, TRUE).lines
    /\ (op = "set_inplace" /\ raised.kind = "none") =>
         /\ aliased
         /\ returned = lines

\* the copy call on the base file: the list passed is kept, the list
\* returned has the new dt
C16_Witness ==
    /\ op = "set_copy" /\ raised.kind = "none"
    /\ before = EndToEndBase
    /\ argKey = <<"d","t">> /\ argValue = PyFloat(1, 3)
    /\ lines = EndToEndBase
    /\ returned = [EndToEndBase EXCEPT ![2] = <<"d","t"," ","="," ","0",".","0","0","1">>]  \* "dt = 0.001"

----------------------------------------------------------------------------
(* C15, C17: the typed setters *)

\* the key a typed setter writes
KeyOf(name) ==
    CASE name = "set_dt" -> <<"d","t">>
      [] name = "set_nsteps" -> <<"n","s","t","e","p","s">>  \* "nsteps"
      [] name = "set_mts" -> <<"m","t","s">>
      [] OTHER -> Declared(name).key

\* a typed setter has just returned normally
SetterReturned == op \in EnumSetters \cup PlainSetters /\ raised.kind = "none"

\* C15: a typed setter that succeeds returns the wrapper itself, leaves the
\* pending entry of every other key as it was, adds no key but its own and
\* leaves the lines of the configuration buffer as they were.
C15_SetterFrame ==
    SetterReturned =>
        /\ ret = "self"
        /\ DOMAIN _parameters = DOMAIN parameters_before \cup {KeyOf(op)}
        /\ \A k \in DOMAIN parameters_before :
             k # KeyOf(op) => _parameters[k] = parameters_before[k]
        /\ lines = before

\* set_dt succeeded on a wrapper that had integrator pending: integrator is
\* pending as before
C15_Witness ==
    /\ SetterReturned
    /\ op = "set_dt"
    /\ calls = 2
    /\ <<"i","n","t","e","g","r","a","t","o","r">> \in DOMAIN parameters_before  \* "integrator"
    /\ <<"i","n","t","e","g","r","a","t","o","r">> \in DOMAIN _parameters  \* "integrator"
    /\ _parameters[<<"d","t">>] = PyFloat(1, 3)

\* C17: an enum-validated setter given what is no str, an enum member
\* counting as its string, fails with TypeError naming the key, never with
\* ValueError, and records nothing; given an enum member it does not fail
\* with TypeError.
C17_TypeBeforeMembership ==
    op \in EnumSetters =>
        /\ argValue.type \notin {"str", "StrEnum"} =>
             /\ raised = PyError("TypeError", "", Declared(op).key, <<>>)
             /\ _parameters = parameters_before
        /\ argValue.type = "StrEnum" => raised.kind # "TypeError"

\* set_pbc(5) failed with TypeError
C17_Witness ==
    /\ op = "set_pbc"
    /\ argValue = PyInt(5)
    /\ raised.kind = "TypeError"

----------------------------------------------------------------------------
(* C11, C19: run_gro_custom *)

\* the places of events where stmt was called
CalledAt(stmt) == { i \in 1..Len(events) : events[i] = stmt }

\* every call of a precedes every call of b
Precedes(a, b) == \A i \in CalledAt(a), j \in CalledAt(b) : i < j

\* C11: in the buffer handed to setConfig, every key that both the override
\* file and the mapping set is assigned, on the first line assigning it, the
\* mapping's value as formatted: a file giving dt = 0.001 and a mapping
\* giving dt = 0.0005 end as 0.0005.
C11_MappingWins ==
    CalledAt("setConfig") # {} =>
        \A n \in 1..Len(changes.items) :
            LET e == changes.items[n] IN
            (\E f \in 1..Len(parsed_from_file) : parsed_from_file[f].k = Trimmed(e.k)) =>
                /\ AssigningLines(config, e.k) # {}
                /\ LineParts(config[SetMin(AssigningLines(config, e.k))]).token
                     = FormattedText(e.v)

\* the file gave dt = 0.001, the mapping dt = 0.0005, the config has 0.0005
C11_Witness ==
    /\ CalledAt("setConfig") # {}
    /\ changes_file = Path(TRUE, <<"d","t"," ","="," ","0",".","0","0","1","\n","n","s"," ","="," ","7","\n">>)  \* "dt = 0.001\nns = 7\n"
    /\ parsed_from_file = << Entry(<<"d","t">>, PyFloat(1, 3)), Entry(<<"n","s">>, PyInt(7)) >>
    /\ changes = Changes(<< Entry(<<"d","t">>, PyFloat(5, 4)) >>)
    /\ \E i \in 1..Len(config) :
         /\ i = SetMin(AssigningLines(config, <<"d","t">>))
         /\ LineParts(config[i]).token = <<"0",".","0","0","0","5">>  \* "0.0005"

\* C19: every override application and setConfig come before the process
\* is started, start before wait and wait before the read of the result
\* system; the process is started only with a config set and once started
\* the buffer is the one that was handed to setConfig; when applying the
\* overrides fails the process is never created or started.
C19_RunOrder ==
    /\ Precedes("apply_changes", "start")
    /\ Precedes("change_default_params", "start")
    /\ Precedes("setConfig", "start")
    /\ Precedes("start", "wait")
    /\ Precedes("wait", "getSystem")
    /\ CalledAt("wait") # {} => CalledAt("start") # {}
    /\ CalledAt("getSystem") # {} => CalledAt("wait") # {}
    /\ CalledAt("start") # {} =>
         /\ CalledAt("setConfig") # {}
         /\ lines = config
         /\ changes_file.none <=> CalledAt("apply_changes") = {}
         /\ changes.none <=> CalledAt("change_default_params") = {}
    /\ raised.kind # "none" =>
         /\ CalledAt("Gromacs") = {}
         /\ CalledAt("start") = {}
         /\ CalledAt("setConfig") = {}

\* a run with a file and a mapping came to the read of the result system
C19_Witness ==
    /\ op = "getSystem"
    /\ events = << "getConfig", "apply_changes", "change_default_params", "setConfig",
                   "Gromacs", "start", "wait", "getSystem" >>
    /\ raised.kind = "none"

\* a run whose mapping holds an unsupported value ended with TypeError
\* before setConfig
C19_FailedWitness ==
    /\ raised.kind = "TypeError"
    /\ events = << "getConfig", "apply_changes", "change_default_params" >>

----------------------------------------------------------------------------
(* C21: what set_mdp_key wrote, read back *)

\* C21: after set_mdp_key returns, for whatever buffer, key and supported
\* value, some line assigns the key, the first such line has the formatted
\* value as its value text (the value region before any inline comment,
\* trimmed), and the same call made again appends no line.
C21_ReadBack ==
    /\ SetReturned =>
         /\ AssigningLines(lines, argKey) # {}
         /\ LineParts(lines[SetMin(AssigningLines(lines, argKey))]).token = mdp_value
    /\ (op = "set_again" /\ raised.kind = "none") => Len(lines) = Len(before)

----------------------------------------------------------------------------
(* C22: a typed setter that fails *)

\* a typed setter has just failed
SetterFailed == op \in EnumSetters \cup PlainSetters /\ raised.kind # "none"

\* C22: when a typed setter fails, with ValueError or with TypeError, the
\* pending dict is the dict before the call: no key is added or removed and
\* a value recorded for the setter's key before is still recorded; nothing
\* is returned.
C22_UnchangedOnFailure ==
    SetterFailed =>
        /\ raised.kind \in {"ValueError", "TypeError"}
        /\ _parameters = parameters_before
        /\ KeyOf(op) \in DOMAIN parameters_before =>
             /\ KeyOf(op) \in DOMAIN _parameters
             /\ _parameters[KeyOf(op)] = parameters_before[KeyOf(op)]
        /\ ret = "none"

\* set_integrator("bogus") failed on a wrapper that had md pending for
\* integrator: md is still pending
C22_Witness ==
    /\ SetterFailed
    /\ calls = 2
    /\ op = "set_integrator" /\ argValue = PyStr(<<"b","o","g","u","s">>)  \* "bogus"
    /\ raised.kind = "ValueError"
    /\ <<"i","n","t","e","g","r","a","t","o","r">> \in DOMAIN _parameters  \* "integrator"
    /\ _parameters[<<"i","n","t","e","g","r","a","t","o","r">>] = PyStr(<<"m","d">>)  \* "integrator"

----------------------------------------------------------------------------
(* C23: where a call given an unsupported value fails *)

\* v is of no type the formatter supports
Unsupported(v) == v.type \notin {"bool", "int", "float", "str", "StrEnum"}

\* the places of params that hold an unsupported value
UnsupportedAt(params) == { n \in 1..Len(params) : Unsupported(params[n].v) }

\* C23: set_mdp_key given an unsupported value raises TypeError with the
\* buffer as it was; change_default_params given a mapping whose entry n is
\* the first with an unsupported value raises TypeError and leaves the
\* buffer that applying the n - 1 entries before it gives, no later entry
\* applied.
C23_FailurePoint ==
    /\ (op = "set" /\ Unsupported(argValue)) =>
         /\ raised.kind = "TypeError"
         /\ lines = before
    /\ (op = "change" /\ UnsupportedAt(argParams) # {}) =>
         LET n == SetMin(UnsupportedAt(argParams)) IN
         /\ raised = PyError("TypeError", argParams[n].v.type, <<>>, <<>>)
         /\ lines = ApplyEach(before, SubSeq(argParams, 1, n - 1))

\* a mapping whose second entry holds None was applied to a buffer: the
\* call raised and the first entry's line is written
C23_Witness ==
    /\ op = "change"
    /\ raised.kind = "TypeError"
    /\ argParams = << Entry(<<"n","s">>, PyStr(<<"s","d"," ">>)), Entry(<<"d","t">>, PyNone) >>
    /\ before = TwoDt
    /\ lines = Append(TwoDt, AppendLine(<<"n","s">>, <<"s","d">>))

====
